---------------------------- MODULE Spec2Model ----------------------------
(***************************************************************************)
(* Model of EndpointCounter (src/src/index.ts): the keyed statistics       *)
(* store, incrementCount with its LRU cleanup, getStats and reset.         *)
(*                                                                         *)
(* The store is a JavaScript Map, which iterates in insertion order: it is *)
(* modelled as a sequence of entries with pairwise distinct paths.         *)
(* new Date() is modelled by the clock variable now, which never runs      *)
(* backwards; several calls may see the same clock value.                  *)
(* averageDuration is the exact quotient totalDuration / count, kept as a  *)
(* reduced fraction <<numerator, denominator>>.                            *)
(* Entries are JavaScript objects: a Map copy and the onUpdate hook hold    *)
(* references to the store's own entry objects. snapshot and alias track   *)
(* what a caller sees through a Map returned by getStats().                *)
(* Spec is the accumulator with the default onUpdate hook (a no-op);       *)
(* SpecQuery adds the query operations, SpecSnapshot a caller that keeps   *)
(* the Map returned by getStats(), SpecHook the configured onUpdate hooks. *)
(* SpecMethod calls incrementCount with several HTTP methods,              *)
(* SpecMiddleware is middleware() with its finish callbacks, request URLs  *)
(* being parsed and decoded character by character, and SpecInstances has  *)
(* a second EndpointCounter with a Map of its own.                         *)
(***************************************************************************)
EXTENDS Integers, Sequences, FiniteSets, TLC

\* ------------------------------------------------------------------ bounds
\* The number of incrementCount calls explored. With n calls there are at
\* most n distinct timestamps, so the clock runs over 0..n-1.
MaxCalls == 3
MaxTime == MaxCalls - 1

\* The capacities (maxEndpoints) an accumulator is constructed with.
Capacities == {1, 2}

\* The inputs tried by incrementCount: keys (the empty string included),
\* methods and durations (negative, zero, positive). The method is only
\* copied into a new entry and decides nothing in the store's behaviour.
Keys == {"", "/a", "/b"}
Methods == {"GET"}
Durations == {-1, 0, 2}

\* Number.POSITIVE_INFINITY, the initial minDuration: above every duration.
Infinity == 1000000

VARIABLES
    stats,          \* this.stats: the Map, as a sequence in insertion order
    maxEndpoints,   \* this.options.maxEndpoints, fixed at construction
    now,            \* the clock read by new Date()
    last,           \* the most recent call: operation, key, outcome, returned
                    \* value, keys it evicted, whether its key was absent before
    hist,           \* per key: durations recorded since its entry was created
    returned,       \* per key: what the latest incrementCount for it returned
    calls,          \* number of incrementCount calls made so far
    onUpdate,       \* this.options.onUpdate: what the configured hook does
    hookCalls,      \* number of onUpdate invocations so far
    hookArgs,       \* arguments of the latest invocation of a configured hook
                    \* (the default hook takes none and keeps nothing)
    result,         \* what the latest query returned, until the next update
    snapshot,       \* a Map returned by getStats(), as its holder sees it now
    alias,          \* keys whose snapshot entry is the store's entry object
    options,        \* this.options: the flags read or declared for middleware()
    requests,       \* the invocations of the middleware, in order
    logged,         \* the messages passed to this.options.logger, in order
    peer            \* a second EndpointCounter instance and its Map

vars == <<stats, maxEndpoints, now, last, hist, returned, calls,
          onUpdate, hookCalls, hookArgs, result, snapshot, alias,
          options, requests, logged, peer>>

\* What the methods of the accumulator never assign to.
outside == <<options, requests, logged, peer>>

\* The variables of the callers and of the hook.
NoResult == [op |-> "none", arg |-> << >>, limit |-> 0, value |-> << >>]
NoSnapshot == [taken |-> FALSE, value |-> << >>]
NoHookArgs == [endpoint |-> "", stats |-> << >>]
NoPeer == [created |-> FALSE, via |-> "", map |-> 0, stats |-> << >>,
           calls |-> 0]

\* The defaults of the constructor for the flags of the middleware.
DefaultOptions ==
    [includeQueryParams |-> FALSE, groupByMethod |-> TRUE,
     normalizePaths |-> TRUE, enableLogging |-> TRUE]

\* ----------------------------------------------------------------- helpers
Min(a, b) == IF a <= b THEN a ELSE b
Max(a, b) == IF a >= b THEN a ELSE b
Abs(a) == IF a < 0 THEN -a ELSE a

RECURSIVE GCD(_, _)
GCD(a, b) == IF b = 0 THEN a ELSE GCD(b, a % b)

\* a / b for b > 0, as a reduced fraction.
Div(a, b) ==
    LET g == GCD(Abs(a), b)
    IN  <<a \div g, b \div g>>

\* p < q, p = q on fractions with positive denominators.
FracLess(p, q) == p[1] * q[2] < q[1] * p[2]
FracLeq(p, q) == p[1] * q[2] <= q[1] * p[2]

\* An absent value (undefined).
Undefined == [undefined |-> TRUE]

\* ------------------------------------------------------------- Map<string,_>
MapKeys(s) == {s[i].path : i \in 1..Len(s)}
MapHas(s, k) == k \in MapKeys(s)
MapIndex(s, k) == CHOOSE i \in 1..Len(s) : s[i].path = k
MapGet(s, k) == IF MapHas(s, k) THEN s[MapIndex(s, k)] ELSE Undefined
\* Map.set keeps the position of a key already present and appends a new one.
MapSet(s, k, e) ==
    IF MapHas(s, k)
    THEN [s EXCEPT ![MapIndex(s, k)] = e]
    ELSE Append(s, e)
MapDelete(s, k) == SelectSeq(s, LAMBDA e : e.path # k)

\* ----------------------------------------------------------- cleanupIfNeeded
\* The scan with lruTime never lowered: every entry older than the clock
\* replaces the candidate, so the last such entry is chosen.
RECURSIVE LruScanStaleTime(_, _, _)
LruScanStaleTime(s, i, lru) ==
    IF i > Len(s) THEN lru
    ELSE IF s[i].lastAccessedAt < lru.time
         THEN LruScanStaleTime(s, i + 1,
                               [isNull |-> FALSE, key |-> s[i].path,
                                time |-> lru.time])
         ELSE LruScanStaleTime(s, i + 1, lru)

\* The scan with <= for <: among entries of equal age the last one wins.
RECURSIVE LruScanLastTie(_, _, _)
LruScanLastTie(s, i, lru) ==
    IF i > Len(s) THEN lru
    ELSE IF s[i].lastAccessedAt <= lru.time
         THEN LruScanLastTie(s, i + 1,
                             [isNull |-> FALSE, key |-> s[i].path,
                              time |-> s[i].lastAccessedAt])
         ELSE LruScanLastTie(s, i + 1, lru)

\* The scan of lines 55-63 from entry i on: lru = [isNull, key, time].
RECURSIVE LruScan(_, _, _)
LruScan(s, i, lru) ==
    IF i > Len(s) THEN lru
    ELSE IF s[i].lastAccessedAt < lru.time
         THEN LruScan(s, i + 1,
                      [isNull |-> FALSE, key |-> s[i].path,
                       time |-> s[i].lastAccessedAt])
         ELSE LruScan(s, i + 1, lru)

\* if (lruKey): null and the empty string are both falsy.
Truthy(lru) == ~lru.isNull /\ lru.key # ""

\* The store after cleanupIfNeeded() run at clock value t.
cleanupIfNeeded(s, t) ==
    IF Len(s) >= maxEndpoints
    THEN LET lru == LruScan(s, 1, [isNull |-> TRUE, key |-> "", time |-> t])
         IN  IF Truthy(lru) THEN MapDelete(s, lru.key) ELSE s
    ELSE s

\* ------------------------------------------------------------ incrementCount
\* this.stats.get(pathname) || { count: 0, ... }
\* Line 77 with the method of every call copied into the entry.
CurrentStatsLastMethod(s, method, pathname, t) ==
    IF MapHas(s, pathname)
    THEN [MapGet(s, pathname) EXCEPT !.method = method]
    ELSE [count |-> 0, totalDuration |-> 0, averageDuration |-> <<0, 1>>,
          minDuration |-> Infinity, maxDuration |-> 0, lastAccessedAt |-> t,
          method |-> method, path |-> pathname]

\* const currentStats = this.stats.get(pathname) || { count: 0, ... }.
CurrentStats(s, method, pathname, t) ==
    IF MapHas(s, pathname)
    THEN MapGet(s, pathname)
    ELSE [count |-> 0, totalDuration |-> 0, averageDuration |-> <<0, 1>>,
          minDuration |-> Infinity, maxDuration |-> 0, lastAccessedAt |-> t,
          method |-> method, path |-> pathname]

\* Lines 88-93 without count++.
UpdatedNoIncrement(cur, duration, t) ==
    [cur EXCEPT !.totalDuration = cur.totalDuration + duration,
                !.averageDuration = <<0, 1>>,
                !.minDuration = Min(cur.minDuration, duration),
                !.maxDuration = Max(cur.maxDuration, duration),
                !.lastAccessedAt = t]

\* Lines 88-93 with the average taken before the duration is added.
UpdatedAverageFirst(cur, duration, t) ==
    [cur EXCEPT !.count = cur.count + 1,
                !.totalDuration = cur.totalDuration + duration,
                !.averageDuration = Div(cur.totalDuration, cur.count + 1),
                !.minDuration = Min(cur.minDuration, duration),
                !.maxDuration = Max(cur.maxDuration, duration),
                !.lastAccessedAt = t]

\* Lines 88-93 with the average updated from the previous average.
UpdatedRunningAverage(cur, duration, t) ==
    [cur EXCEPT !.count = cur.count + 1,
                !.totalDuration = cur.totalDuration + duration,
                !.averageDuration =
                    IF cur.count = 0 THEN <<duration, 1>>
                    ELSE Div(cur.averageDuration[1]
                               + duration * cur.averageDuration[2],
                             2 * cur.averageDuration[2]),
                !.minDuration = Min(cur.minDuration, duration),
                !.maxDuration = Max(cur.maxDuration, duration),
                !.lastAccessedAt = t]

\* Lines 88-93 applied to currentStats.
Updated(cur, duration, t) ==
    LET count == cur.count + 1
        total == cur.totalDuration + duration
    IN  [cur EXCEPT !.count = count,
                    !.totalDuration = total,
                    !.averageDuration = Div(total, count),
                    !.minDuration = Min(cur.minDuration, duration),
                    !.maxDuration = Max(cur.maxDuration, duration),
                    !.lastAccessedAt = t]

\* The entry object after this.options.onUpdate(pathname, currentStats) has
\* run on it: the hook is handed the store's own object, so a hook that
\* assigns to a field ("write": stats.count = 0) changes the stored entry.
\* incrementCount with the hook call wrapped in try { } catch { }.
HookThrowsSwallowed(hook) == FALSE

\* this.options.onUpdate(pathname, currentStats) is called outside any try
\* block: an exception of the hook leaves incrementCount before line 99.
HookThrows(hook) == hook = "throw"

\* incrementCount that restores the Map when the hook throws.
StoreAfterCallRolledBack(hook, before, after) ==
    IF hook = "throw" THEN before ELSE after

\* The Map when incrementCount is left: cleanupIfNeeded (line 75) and
\* this.stats.set (line 95) have run before the hook is called (line 97),
\* and nothing undoes them when it throws.
StoreAfterCall(hook, before, after) == after

AfterHook(hook, entry) ==
    IF hook = "write" THEN [entry EXCEPT !.count = 0] ELSE entry

\* incrementCount(method, pathname, duration): the clock reads now in
\* cleanupIfNeeded and t >= now when lastAccessedAt is refreshed. The entry
\* is set in the Map (line 95), then the hook runs (line 97), then the
\* entry's count is returned (line 99) unless the hook threw.
IncrementCount(method, pathname, duration, t) ==
    LET cleaned == cleanupIfNeeded(stats, now)
        cur == CurrentStats(cleaned, method, pathname, t)
        upd == Updated(cur, duration, t)
        obj == AfterHook(onUpdate, upd)
        gone == MapKeys(stats) \ MapKeys(cleaned)
        threw == HookThrows(onUpdate)
    IN  /\ calls < MaxCalls
        /\ calls' = calls + 1
        /\ stats' = StoreAfterCall(onUpdate, stats,
                                    MapSet(cleaned, pathname, obj))
        /\ now' = t
        /\ last' = [op |-> "incrementCount", key |-> pathname,
                    method |-> method,
                    outcome |-> IF threw THEN "threw" ELSE "returned",
                    ret |-> IF threw THEN 0 ELSE obj.count,
                    evicted |-> gone, fresh |-> ~MapHas(stats, pathname)]
        /\ hookCalls' = hookCalls + 1
        /\ hookArgs' = IF onUpdate = "noop" THEN hookArgs
                       ELSE [endpoint |-> pathname, stats |-> upd]
        /\ result' = NoResult
        /\ alias' = alias \cap MapKeys(cleaned)
        /\ snapshot' = IF pathname \in alias'
                       THEN [snapshot EXCEPT
                               !.value = MapSet(@, pathname, obj)]
                       ELSE snapshot
        /\ hist' = [k \in Keys |->
                      IF k = pathname
                      THEN (IF MapHas(cleaned, k) THEN Append(hist[k], duration)
                            ELSE <<duration>>)
                      ELSE IF MapHas(cleaned, k) THEN hist[k] ELSE <<>>]
        /\ returned' = IF threw THEN returned
                       ELSE [returned EXCEPT ![pathname] = obj.count]
        /\ UNCHANGED <<maxEndpoints, onUpdate>>

\* ----------------------------------------------------------------- getStats
\* getStats(endpoint?): arg is <<>> (no argument) or <<endpoint>>.
getStats(arg) ==
    IF arg # <<>> /\ arg[1] # ""
    THEN (IF MapHas(stats, arg[1])
          THEN [kind |-> "entry", value |-> MapGet(stats, arg[1])]
          ELSE [kind |-> "undefined"])
    ELSE [kind |-> "map", value |-> stats]

\* -------------------------------------------------------------------- reset
\* reset(k) that deletes by position: the position of an absent key is -1,
\* which removes the last entry.
resetStoreByPosition(s, arg) ==
    IF arg # <<>> /\ arg[1] # ""
    THEN (IF MapHas(s, arg[1]) THEN MapDelete(s, arg[1])
          ELSE SubSeq(s, 1, Len(s) - 1))
    ELSE << >>

resetStore(s, arg) ==
    IF arg # <<>> /\ arg[1] # ""
    THEN MapDelete(s, arg[1])
    ELSE << >>

Reset(arg) ==
    /\ stats' = resetStore(stats, arg)
    /\ last' = [op |-> "reset", key |-> IF arg = <<>> THEN "" ELSE arg[1],
                method |-> "",
                outcome |-> "returned", ret |-> 0, evicted |-> {},
                fresh |-> FALSE]
    /\ hist' = [k \in Keys |-> IF MapHas(stats', k) THEN hist[k] ELSE <<>>]
    /\ result' = NoResult
    /\ alias' = alias \cap MapKeys(stats')
    /\ UNCHANGED <<maxEndpoints, now, returned, calls, onUpdate, hookCalls,
                   hookArgs, snapshot, outside>>

\* --------------------------------------------------- ranked queries, summary
\* Array.prototype.sort is stable (ES2019; engines: node >= 14): an element
\* goes behind every element the comparator does not put after it.
\* (a, b) => b[1].count - a[1].count > 0: a goes after b.
AfterByCount(a, b) == b.count - a.count > 0
\* (a, b) => b[1].averageDuration - a[1].averageDuration > 0.
AfterByAverage(a, b) == FracLess(a.averageDuration, b.averageDuration)
\* After(by, x, y): the comparator of the query named by puts x after y.
After(by, x, y) ==
    IF by = "count" THEN AfterByCount(x, y) ELSE AfterByAverage(x, y)

RECURSIVE InsertStable(_, _, _)
InsertStable(sorted, e, by) ==
    IF sorted = << >> THEN <<e>>
    ELSE IF After(by, Head(sorted), e)
         THEN <<e>> \o sorted
         ELSE <<Head(sorted)>> \o InsertStable(Tail(sorted), e, by)

RECURSIVE SortStable(_, _)
SortStable(s, by) ==
    IF s = << >> THEN << >>
    ELSE InsertStable(SortStable(SubSeq(s, 1, Len(s) - 1), by),
                      s[Len(s)], by)

\* Array.prototype.slice(0, end): a negative end counts from the end of the
\* array, and the bounds are clamped to 0..length.
Slice0(a, end) ==
    LET e == IF end < 0 THEN Max(Len(a) + end, 0) ELSE Min(end, Len(a))
    IN  SubSeq(a, 1, e)

\* .map(([endpoint, stats]) => ({ endpoint, stats }))
Pairs(a) == [i \in 1..Len(a) |-> [endpoint |-> a[i].path, stats |-> a[i]]]

\* slice(0, limit) that drops the wrong end of the array.
getTopEndpointsTail(limit) ==
    LET a == SortStable(stats, "count")
    IN  Pairs(SubSeq(a, Len(a) - Min(limit, Len(a)) + 1, Len(a)))

getTopEndpoints(limit) == Pairs(Slice0(SortStable(stats, "count"), limit))

getSlowestEndpoints(limit) ==
    Pairs(Slice0(SortStable(stats, "average"), limit))

\* array[0]: undefined for an empty array.
First(a) == IF a = << >> THEN Undefined ELSE a[1]

\* allStats.reduce((sum, stat) => sum + stat.count, 0) and the like.
RECURSIVE ReduceCount(_)
ReduceCount(a) ==
    IF a = << >> THEN 0
    ELSE ReduceCount(SubSeq(a, 1, Len(a) - 1)) + a[Len(a)].count
RECURSIVE ReduceDuration(_)
ReduceDuration(a) ==
    IF a = << >> THEN 0
    ELSE ReduceDuration(SubSeq(a, 1, Len(a) - 1)) + a[Len(a)].totalDuration

\* 0 / 0 is NaN, written <<0, 0>>.
Quotient(a, b) == IF b = 0 THEN <<0, 0>> ELSE Div(a, b)

\* getSummary without the totalRequests > 0 test.
getSummaryUnguarded ==
    [totalEndpoints |-> Len(stats),
     totalRequests |-> ReduceCount(stats),
     totalDuration |-> ReduceDuration(stats),
     averageDuration |-> Quotient(ReduceDuration(stats), ReduceCount(stats)),
     topEndpoint |-> First(getTopEndpoints(1)),
     slowestEndpoint |-> First(getSlowestEndpoints(1))]

\* getSummary counting the entries instead of adding their counts.
getSummaryCountsEntries ==
    [totalEndpoints |-> Len(stats),
     totalRequests |-> Len(stats),
     totalDuration |-> ReduceDuration(stats),
     averageDuration |-> IF Len(stats) > 0
                         THEN Div(ReduceDuration(stats), Len(stats))
                         ELSE <<0, 1>>,
     topEndpoint |-> First(getTopEndpoints(1)),
     slowestEndpoint |-> First(getSlowestEndpoints(1))]

getSummary ==
    LET totalRequests == ReduceCount(stats)
        totalDuration == ReduceDuration(stats)
    IN  [totalEndpoints |-> Len(stats),
         totalRequests |-> totalRequests,
         totalDuration |-> totalDuration,
         averageDuration |-> IF totalRequests > 0
                             THEN Div(totalDuration, totalRequests)
                             ELSE <<0, 1>>,
         topEndpoint |-> First(getTopEndpoints(1)),
         slowestEndpoint |-> First(getSlowestEndpoints(1))]

\* The query calls: none of them writes to this.stats or to an entry.
QueryFrame ==
    UNCHANGED <<stats, maxEndpoints, now, last, hist, returned, calls,
                onUpdate, hookCalls, hookArgs, snapshot, alias, outside>>

\* A lookup that refreshes lastAccessedAt, as a cache that counts reads as
\* uses would.
GetStatsTouching(arg) ==
    /\ result' = [op |-> "getStats", arg |-> arg, limit |-> 0,
                  value |-> getStats(arg)]
    /\ stats' = [i \in 1..Len(stats) |->
                   IF arg # << >> /\ stats[i].path = arg[1]
                   THEN [stats[i] EXCEPT !.lastAccessedAt = now]
                   ELSE stats[i]]
    /\ UNCHANGED <<maxEndpoints, now, last, hist, returned, calls,
                   onUpdate, hookCalls, hookArgs, snapshot, alias, outside>>

GetStats(arg) ==
    /\ result' = [op |-> "getStats", arg |-> arg, limit |-> 0,
                  value |-> getStats(arg)]
    /\ QueryFrame

GetTopEndpoints(limit) ==
    /\ result' = [op |-> "getTopEndpoints", arg |-> << >>, limit |-> limit,
                  value |-> getTopEndpoints(limit)]
    /\ QueryFrame

GetSlowestEndpoints(limit) ==
    /\ result' = [op |-> "getSlowestEndpoints", arg |-> << >>,
                  limit |-> limit, value |-> getSlowestEndpoints(limit)]
    /\ QueryFrame

GetSummary ==
    /\ result' = [op |-> "getSummary", arg |-> << >>, limit |-> 0,
                  value |-> getSummary]
    /\ QueryFrame

\* -------------------------------------------------------------------- clock
Tick ==
    /\ now < MaxTime
    /\ now' = now + 1
    /\ UNCHANGED <<stats, maxEndpoints, last, hist, returned, calls,
                   onUpdate, hookCalls, hookArgs, result, snapshot, alias,
                   outside>>

\* ------------------------------------------------------------ specification
\* A new EndpointCounter with capacity cap and hook.
ConstructedWith(cap, hook, opts) ==
    /\ stats = << >>
    /\ maxEndpoints = cap
    /\ onUpdate = hook
    /\ now = 0
    /\ last = [op |-> "new", key |-> "", method |-> "",
               outcome |-> "returned", ret |-> 0,
               evicted |-> {}, fresh |-> FALSE]
    /\ hist = [k \in Keys |-> << >>]
    /\ returned = [k \in Keys |-> 0]
    /\ calls = 0
    /\ hookCalls = 0
    /\ hookArgs = NoHookArgs
    /\ result = NoResult
    /\ snapshot = NoSnapshot
    /\ alias = {}
    /\ options = opts
    /\ requests = << >>
    /\ logged = << >>
    /\ peer = NoPeer

Constructed(cap, hook) == ConstructedWith(cap, hook, DefaultOptions)

\* The default options: onUpdate: () => { }.
Init == \E cap \in Capacities : Constructed(cap, "noop")

DoIncrementCount ==
    \E m \in Methods, k \in Keys, d \in Durations, t \in {now, now + 1} :
        t <= MaxTime /\ IncrementCount(m, k, d, t) /\ UNCHANGED outside

DoReset == \E arg \in {<<>>} \cup {<<k>> : k \in Keys} : Reset(arg)

Next == DoIncrementCount \/ DoReset \/ Tick

Spec == Init /\ [][Next]_vars

\* ---------------------------------------------- the accumulator with queries
\* The limits passed to the ranked queries: negative, zero, below and above
\* the store's size.
Limits == {-2, -1, 0, 1, 2, 3}
QueryArgs == {<<>>} \cup {<<k>> : k \in Keys}

DoGetStats == \E arg \in QueryArgs : GetStats(arg)
DoGetTopEndpoints == \E limit \in Limits : GetTopEndpoints(limit)
DoGetSlowestEndpoints == \E limit \in Limits : GetSlowestEndpoints(limit)

\* SpecQuery: what the queries return. All calls are made within one clock
\* tick and the capacity is 3, so that the store holds up to three entries
\* in every order and with every combination of counts and averages.
QueryDurations == {0, 2}

QueryIncrementCount ==
    \E m \in Methods, k \in Keys, d \in QueryDurations :
        IncrementCount(m, k, d, now) /\ UNCHANGED outside

QueryInit == Constructed(3, "noop")

QueryNext ==
    \/ QueryIncrementCount
    \/ DoReset
    \/ DoGetStats
    \/ DoGetTopEndpoints
    \/ DoGetSlowestEndpoints
    \/ GetSummary

SpecQuery == QueryInit /\ [][QueryNext]_vars

\* SpecFrame: what the queries leave alone, with the clock running and
\* evictions happening between the queries.
FrameKeys == {"/a", "/b"}

FrameIncrementCount ==
    \E m \in Methods, k \in FrameKeys, t \in {now, now + 1} :
        t <= MaxTime /\ IncrementCount(m, k, 2, t) /\ UNCHANGED outside

FrameNext ==
    \/ FrameIncrementCount
    \/ DoReset
    \/ Tick
    \/ DoGetStats
    \/ DoGetTopEndpoints
    \/ DoGetSlowestEndpoints
    \/ GetSummary

SpecFrame == Init /\ [][FrameNext]_vars

\* ------------------------------------------- callers with several methods
\* incrementCount called for the same keys with different HTTP methods.
HttpMethods == {"GET", "POST"}

MethodIncrementCount ==
    \E m \in HttpMethods, k \in FrameKeys, t \in {now, now + 1} :
        t <= MaxTime /\ IncrementCount(m, k, 2, t) /\ UNCHANGED outside

MethodNext == MethodIncrementCount \/ DoReset \/ Tick

SpecMethod == Init /\ [][MethodNext]_vars

\* ---------------------------------------------- a caller holding getStats()
\* const snap = counter.getStats(): new Map(this.stats) copies the table of
\* keys, not the entries; the caller's Map holds the store's entry objects.
TakeSnapshot ==
    /\ ~snapshot.taken
    /\ snapshot' = [taken |-> TRUE, value |-> stats]
    /\ alias' = MapKeys(stats)
    /\ result' = [op |-> "getStats", arg |-> << >>, limit |-> 0,
                  value |-> getStats(<< >>)]
    /\ UNCHANGED <<stats, maxEndpoints, now, last, hist, returned, calls,
                   onUpdate, hookCalls, hookArgs, outside>>

SnapshotNext == FrameIncrementCount \/ DoReset \/ Tick \/ TakeSnapshot

SpecSnapshot == Init /\ [][SnapshotNext]_vars

\* ------------------------------------------------- a caller-supplied onUpdate
\* Hooks a caller can configure: one that reads its arguments, one that
\* throws, one that assigns to the entry it is handed (stats.count = 0).
Hooks == {"observe", "throw", "write"}

HookInit == \E cap \in Capacities, hook \in Hooks : Constructed(cap, hook)

HookNext == FrameIncrementCount \/ DoReset \/ Tick

SpecHook == HookInit /\ [][HookNext]_vars

\* ------------------------------------------------------------- middleware
\* Request URLs are sequences of characters, so that parsing and decoding
\* are computed character by character:
\*   /u/1   /u/2   /u/%31   /u/1?q   /%   //   //h/u/1
RequestUrls ==
    { <<"/", "u", "/", "1">>,
      <<"/", "u", "/", "2">>,
      <<"/", "u", "/", "%", "3", "1">>,
      <<"/", "u", "/", "1", "?", "q">>,
      <<"/", "%">>,
      <<"/", "/">>,
      <<"/", "/", "h", "/", "u", "/", "1">> }

\* req.headers.host: a usual value, none, and one that is no host.
HostHeaders == {"localhost:3000", "", "a b"}

\* The number of middleware invocations explored.
MaxRequests == MaxCalls - 1

\* res.statusCode when the response finishes.
StatusCodes == {200, 404}

\* The option sets a counter with a middleware is constructed with: the
\* defaults, logging switched off, query parameters included.
OptionSets ==
    { DefaultOptions,
      [DefaultOptions EXCEPT !.enableLogging = FALSE],
      [DefaultOptions EXCEPT !.includeQueryParams = TRUE] }

\* The string of a sequence of characters.
RECURSIVE Join(_)
Join(cs) == IF cs = << >> THEN "" ELSE Head(cs) \o Join(Tail(cs))

\* The first position from i on whose character is in set, or Len + 1.
RECURSIVE IndexOf(_, _, _)
IndexOf(cs, set, i) ==
    IF i > Len(cs) THEN Len(cs) + 1
    ELSE IF cs[i] \in set THEN i
    ELSE IndexOf(cs, set, i + 1)

\* The first position from i on whose character is no slash, or Len + 1.
RECURSIVE SkipSlashes(_, _)
SkipSlashes(cs, i) ==
    IF i > Len(cs) \/ cs[i] # "/" THEN i ELSE SkipSlashes(cs, i + 1)

InvalidURL == [ok |-> FALSE, host |-> << >>, pathname |-> << >>,
               search |-> << >>]

\* url.search is empty for an empty query.
Search(cs) == IF Len(cs) <= 1 THEN << >> ELSE cs

\* new URL(u, "http://" + host) for a reference u that starts with a slash.
\* A reference starting with two slashes names its own host, which must not
\* be empty; an invalid percent sequence is kept as it is.
NewURL(u, host) ==
    IF host = "a b" THEN InvalidURL
    ELSE IF Len(u) >= 2 /\ u[1] = "/" /\ u[2] = "/"
    THEN LET a == SkipSlashes(u, 3)
             e == IndexOf(u, {"/", "?"}, a)
             q == IndexOf(u, {"?"}, e)
         IN  IF e = a THEN InvalidURL
             ELSE [ok |-> TRUE, host |-> SubSeq(u, a, e - 1),
                   pathname |-> IF q = e THEN <<"/">>
                                ELSE SubSeq(u, e, q - 1),
                   search |-> Search(SubSeq(u, q, Len(u)))]
    ELSE LET q == IndexOf(u, {"?"}, 1)
         IN  [ok |-> TRUE, host |-> <<host>>,
              pathname |-> SubSeq(u, 1, q - 1),
              search |-> Search(SubSeq(u, q, Len(u)))]

\* Lines 171-177: try new URL(req.url, host), catch: new URL(req.url,
\* 'http://localhost'). ok = FALSE: the second new URL has thrown.
ParseSafely(u, host) ==
    LET first == NewURL(u, IF host = "" THEN "localhost" ELSE host)
    IN  IF first.ok THEN first ELSE NewURL(u, "localhost")

HexDigits == {"1", "2", "3"}

\* The character with code h1 h2: the digits are 0x30 to 0x39.
CharOfCode(h1, h2) == IF h1 = "3" THEN h2 ELSE "#" \o h1 \o h2

\* decodeURL(url) = decodeURIComponent(url.pathname): ok = FALSE is the
\* URIError thrown for a % that two hex digits do not follow.
RECURSIVE decodeURL(_)
decodeURL(cs) ==
    IF cs = << >> THEN [ok |-> TRUE, value |-> << >>]
    ELSE IF Head(cs) # "%"
    THEN LET rest == decodeURL(Tail(cs))
         IN  [ok |-> rest.ok, value |-> <<Head(cs)>> \o rest.value]
    ELSE IF Len(cs) >= 3 /\ cs[2] \in HexDigits /\ cs[3] \in HexDigits
    THEN LET rest == decodeURL(SubSeq(cs, 4, Len(cs)))
         IN  [ok |-> rest.ok,
              value |-> <<CharOfCode(cs[2], cs[3])>> \o rest.value]
    ELSE [ok |-> FALSE, value |-> << >>]

\* Lines 181-183: the key the finish callback records under.
Pathname(url) ==
    LET decoded == decodeURL(url.pathname)
    IN  [ok |-> decoded.ok,
         value |-> IF options.includeQueryParams
                   THEN Join(decoded.value) \o Join(url.search)
                   ELSE Join(decoded.value)]

\* The middleware called with (req, res, next): start = Date.now(), the
\* URL is parsed, the finish listener is registered, next() is called.
\* When both new URL calls throw, the middleware throws before res.on.
Middleware(method, u, host) ==
    LET url == ParseSafely(u, host)
    IN  /\ Len(requests) < MaxRequests
        /\ requests' = Append(requests,
               [method |-> method, url |-> u, start |-> now, parsed |-> url,
                status |-> IF url.ok THEN "pending" ELSE "threw",
                nexts |-> IF url.ok THEN 1 ELSE 0,
                records |-> 0, key |-> "", duration |-> 0,
                statusCode |-> 0, count |-> 0])
        /\ UNCHANGED <<stats, maxEndpoints, now, last, hist, returned, calls,
                       onUpdate, hookCalls, hookArgs, result, snapshot,
                       alias, options, logged, peer>>

\* The callback of res.on('finish'), lines 179-191, for invocation i: the
\* duration, the key (decodeURL may throw), incrementCount (the hook may
\* throw), then the log message when enableLogging is set.
OnFinish(i, code, t) ==
    LET req == requests[i]
        pathname == Pathname(req.parsed)
        duration == now - req.start
    IN  /\ req.status = "pending"
        /\ IF ~pathname.ok
           THEN /\ requests' = [requests EXCEPT ![i].status = "failed",
                                                ![i].statusCode = code]
                /\ t = now
                /\ UNCHANGED <<stats, maxEndpoints, now, last, hist,
                               returned, calls, onUpdate, hookCalls,
                               hookArgs, result, snapshot, alias, logged>>
           ELSE /\ IncrementCount(req.method, pathname.value, duration, t)
                /\ requests' = [requests EXCEPT
                       ![i] = [req EXCEPT
                                 !.status = IF last'.outcome = "threw"
                                            THEN "failed" ELSE "finished",
                                 !.records = 1,
                                 !.key = pathname.value,
                                 !.duration = duration,
                                 !.statusCode = code,
                                 !.count = last'.ret]]
                /\ logged' =
                       IF options.enableLogging /\ last'.outcome = "returned"
                       THEN Append(logged,
                              [request |-> i, method |-> req.method,
                               pathname |-> pathname.value,
                               statusCode |-> code, duration |-> duration,
                               count |-> last'.ret])
                       ELSE logged
        /\ UNCHANGED <<options, peer>>

\* The connection of invocation i is closed before the response finishes:
\* no finish event is emitted for it.
Close(i) ==
    /\ requests[i].status = "pending"
    /\ requests' = [requests EXCEPT ![i].status = "closed"]
    /\ UNCHANGED <<stats, maxEndpoints, now, last, hist, returned, calls,
                   onUpdate, hookCalls, hookArgs, result, snapshot, alias,
                   options, logged, peer>>

DoMiddleware ==
    \E m \in HttpMethods, u \in RequestUrls, h \in HostHeaders :
        Middleware(m, u, h)

DoOnFinish ==
    \E i \in 1..Len(requests), code \in StatusCodes :
        OnFinish(i, code, now)

DoClose == \E i \in 1..Len(requests) : Close(i)

MiddlewareInit ==
    \E opts \in OptionSets : ConstructedWith(2, "noop", opts)

MiddlewareNext == DoMiddleware \/ DoOnFinish \/ DoClose \/ Tick

SpecMiddleware == MiddlewareInit /\ [][MiddlewareNext]_vars

\* ----------------------------------------------------------- two instances
\* Map objects have identities. The Map of this instance is the first one
\* made; peer is a second EndpointCounter, made by new EndpointCounter,
\* createEndpointCounter or endpointCounterMiddleware, with its own field
\* stats. peer.stats is the content of the peer's Map when it is not the
\* Map of this instance.
ThisMap == 1

Factories == {"new", "createEndpointCounter", "endpointCounterMiddleware"}

\* A static field: every instance gets the Map that exists already.
NewMapStatic(taken) == CHOOSE a \in taken : TRUE

\* private stats = new Map(): a field initializer, run for every instance.
NewMap(taken) == CHOOSE a \in 1..(Cardinality(taken) + 1) : a \notin taken

\* What the peer reads through its field stats.
PeerStats == IF peer.map = ThisMap THEN stats ELSE peer.stats

CreatePeer(factory) ==
    /\ ~peer.created
    /\ peer' = [created |-> TRUE, via |-> factory, map |-> NewMap({ThisMap}),
                stats |-> << >>, calls |-> 0]
    /\ UNCHANGED <<stats, maxEndpoints, now, last, hist, returned, calls,
                   onUpdate, hookCalls, hookArgs, result, snapshot, alias,
                   options, requests, logged>>

\* A write of the peer to its Map.
PeerWrite(s) ==
    IF peer.map = ThisMap
    THEN stats' = s /\ peer' = [peer EXCEPT !.calls = @ + 1]
    ELSE stats' = stats /\ peer' = [peer EXCEPT !.stats = s, !.calls = @ + 1]

\* incrementCount called on the peer (default hook).
PeerIncrementCount(method, pathname, duration) ==
    LET cleaned == cleanupIfNeeded(PeerStats, now)
        cur == CurrentStats(cleaned, method, pathname, now)
    IN  /\ peer.created
        /\ calls + peer.calls < MaxCalls
        /\ PeerWrite(MapSet(cleaned, pathname, Updated(cur, duration, now)))
        /\ UNCHANGED <<maxEndpoints, now, last, hist, returned, calls,
                       onUpdate, hookCalls, hookArgs, result, snapshot,
                       alias, options, requests, logged>>

\* reset called on the peer.
PeerReset(arg) ==
    /\ peer.created
    /\ calls + peer.calls < MaxCalls
    /\ PeerWrite(resetStore(PeerStats, arg))
    /\ UNCHANGED <<maxEndpoints, now, last, hist, returned, calls,
                   onUpdate, hookCalls, hookArgs, result, snapshot, alias,
                   options, requests, logged>>

DoCreatePeer == \E f \in Factories : CreatePeer(f)

DoPeerIncrementCount ==
    \E m \in Methods, k \in FrameKeys, d \in QueryDurations :
        PeerIncrementCount(m, k, d)

DoPeerReset == \E arg \in QueryArgs : PeerReset(arg)

\* incrementCount called on this instance; the calls of both instances
\* together are bounded.
InstanceIncrementCount ==
    \E m \in Methods, k \in FrameKeys, d \in QueryDurations :
        /\ calls + peer.calls < MaxCalls
        /\ IncrementCount(m, k, d, now)
        /\ UNCHANGED outside

InstancesNext ==
    \/ InstanceIncrementCount
    \/ DoReset
    \/ DoCreatePeer
    \/ DoPeerIncrementCount
    \/ DoPeerReset

SpecInstances == Init /\ [][InstancesNext]_vars

\* ================================================================== claims
IsIncrementCountStep == calls' = calls + 1

\* No incrementCount call so far had the empty string as its key.
NoEmptyKeyCall == returned[""] = 0

RECURSIVE SeqSum(_)
SeqSum(q) == IF q = << >> THEN 0 ELSE Head(q) + SeqSum(Tail(q))
SeqMin(q) == CHOOSE x \in {q[i] : i \in 1..Len(q)} :
                 \A j \in 1..Len(q) : x <= q[j]
SeqMax(q) == CHOOSE x \in {q[i] : i \in 1..Len(q)} :
                 \A j \in 1..Len(q) : x >= q[j]

\* C1: for every sequence of incrementCount calls on an accumulator of
\* capacity maxEndpoints > 0, the number of keys in the store never exceeds
\* maxEndpoints, whatever clock values the calls see. Stated for the calls
\* whose keys are non-empty, which is the case the counterexample shows.
C1_SizeWithinCapacity == NoEmptyKeyCall => Len(stats) <= maxEndpoints

\* C2: an incrementCount call for a key already present, made while the
\* store is at capacity, evicts nothing: the key set is the same before and
\* after the call. Stated for the calls whose keys are non-empty.
C2_UpdateEvictsNothing ==
    [][(IsIncrementCountStep /\ NoEmptyKeyCall' /\ MapHas(stats, last'.key)
          /\ Len(stats) >= maxEndpoints)
        => (last'.evicted = {} /\ MapKeys(stats') = MapKeys(stats))]_vars

C4_EvictsLeastRecentlyUsed ==
    [][(IsIncrementCountStep /\ ~MapHas(stats, last'.key)
          /\ Len(stats) >= maxEndpoints)
        => /\ Cardinality(last'.evicted) <= 1
           /\ \A k \in last'.evicted : \A i \in 1..Len(stats) :
                MapGet(stats, k).lastAccessedAt <= stats[i].lastAccessedAt]_vars

\* An eviction for a new key that left an entry stamped before the clock
\* value of the eviction in the store: the scan had several candidates.
C4_Witness ==
    /\ last.op = "incrementCount"
    /\ last.fresh
    /\ last.evicted # {}
    /\ \E i \in 1..Len(stats) :
         /\ stats[i].path # last.key
         /\ stats[i].lastAccessedAt < now

\* C5: after n >= 1 incrementCount calls with non-negative durations
\* d1..dn for a key whose entry stayed in the store, getStats(key) is the
\* entry with count = n, totalDuration = d1+...+dn, averageDuration =
\* totalDuration / count (so averageDuration * count = totalDuration),
\* minDuration = min(d1..dn) and maxDuration = max(d1..dn).
C5_AggregatesMatchObservations ==
    \A k \in Keys :
        (hist[k] # << >> /\ \A i \in 1..Len(hist[k]) : hist[k][i] >= 0)
        => LET r == getStats(<<k>>)
           IN  /\ r.kind = "entry"
               /\ r.value.count = Len(hist[k])
               /\ r.value.totalDuration = SeqSum(hist[k])
               /\ r.value.averageDuration
                    = Div(r.value.totalDuration, r.value.count)
               /\ r.value.averageDuration[1] * r.value.count
                    = r.value.totalDuration * r.value.averageDuration[2]
               /\ r.value.minDuration = SeqMin(hist[k])
               /\ r.value.maxDuration = SeqMax(hist[k])

\* C6: every entry of the store has minDuration <= averageDuration <=
\* maxDuration, equivalently minDuration * count <= totalDuration <=
\* maxDuration * count, durations of 0 included.
C6_AverageBetweenExtrema ==
    \A i \in 1..Len(stats) :
        /\ FracLeq(<<stats[i].minDuration, 1>>, stats[i].averageDuration)
        /\ FracLeq(stats[i].averageDuration, <<stats[i].maxDuration, 1>>)
        /\ stats[i].minDuration * stats[i].count <= stats[i].totalDuration
        /\ stats[i].totalDuration <= stats[i].maxDuration * stats[i].count

C6_Witness ==
    \E i \in 1..Len(stats) :
        /\ stats[i].count >= 2
        /\ stats[i].minDuration = 0
        /\ stats[i].maxDuration = 2
        /\ FracLess(<<0, 1>>, stats[i].averageDuration)

\* C7: every key present in the store has count >= 1: no operation leaves a
\* zero-count entry.
C7_NoZeroCountEntry == \A i \in 1..Len(stats) : stats[i].count >= 1

\* Entries that survived an eviction, and entries that survived a reset.
C7_Witness ==
    /\ Len(stats) >= 2
    /\ \/ last.op = "reset"
       \/ last.op = "incrementCount" /\ last.evicted # {}

\* C8: right after incrementCount(m, k, d) returns c, k is in the store and
\* getStats(k) is its entry with count = c.
C8_ReturnIsStoredCount ==
    (last.op = "incrementCount" /\ last.outcome = "returned")
    => LET r == getStats(<<last.key>>)
       IN  /\ MapHas(stats, last.key)
           /\ r.kind = "entry"
           /\ r.value.count = last.ret

\* C9: incrementCount with a negative duration or an empty key is rejected
\* with an error and leaves the store unchanged.
C9_InvalidInputRejected ==
    [][\A m \in Methods, k \in Keys, d \in Durations, t \in 0..MaxTime :
         (IncrementCount(m, k, d, t) /\ (d < 0 \/ k = ""))
         => (last'.outcome = "threw" /\ stats' = stats)]_vars

\* C10: when incrementCount is called for a new key while the store holds
\* at least maxEndpoints entries, the cleanup removes an entry or the call
\* fails with an error; it is never a silent no-op. Stated for the calls
\* whose keys are non-empty.
C10_EvictionNeverSilentNoOp ==
    [][(IsIncrementCountStep /\ NoEmptyKeyCall' /\ ~MapHas(stats, last'.key)
          /\ Len(stats) >= maxEndpoints)
        => (last'.evicted # {} \/ last'.outcome = "threw")]_vars

\* -------------------------------------------------------- queries and reset
IsRanked == result.op \in {"getTopEndpoints", "getSlowestEndpoints"}

\* The rank of entry x is below that of entry y in the order of the query.
RankBelow(op, x, y) ==
    IF op = "getTopEndpoints" THEN x.count < y.count
    ELSE x.averageDuration[1] * y.averageDuration[2]
           < y.averageDuration[1] * x.averageDuration[2]

RECURSIVE SumOver(_, _)
SumOver(keys, field) ==
    IF keys = {} THEN 0
    ELSE LET k == CHOOSE x \in keys : TRUE
         IN  (IF field = "count" THEN MapGet(stats, k).count
              ELSE MapGet(stats, k).totalDuration)
             + SumOver(keys \ {k}, field)

\* C11: getSummary() on an empty store (fresh or after reset()) returns
\* totalEndpoints = 0, totalRequests = 0, totalDuration = 0,
\* averageDuration = 0 (a number, no division by zero) and undefined
\* topEndpoint and slowestEndpoint.
C11_EmptySummary ==
    (result.op = "getSummary" /\ stats = << >>)
    => /\ result.value.totalEndpoints = 0
       /\ result.value.totalRequests = 0
       /\ result.value.totalDuration = 0
       /\ result.value.averageDuration = <<0, 1>>
       /\ result.value.topEndpoint = Undefined
       /\ result.value.slowestEndpoint = Undefined

\* getSummary() on a store that held entries and was emptied by reset().
C11_Witness ==
    /\ result.op = "getSummary"
    /\ stats = << >>
    /\ last.op = "reset"
    /\ calls > 0

\* C12: getSummary() returns totalEndpoints = number of keys, totalRequests
\* = sum of count over the entries, totalDuration = sum of totalDuration
\* over the entries, averageDuration = totalDuration / totalRequests when
\* totalRequests > 0, topEndpoint = getTopEndpoints(1)[0] and
\* slowestEndpoint = getSlowestEndpoints(1)[0].
C12_SummaryAggregates ==
    result.op = "getSummary"
    => /\ result.value.totalEndpoints = Cardinality(MapKeys(stats))
       /\ result.value.totalRequests = SumOver(MapKeys(stats), "count")
       /\ result.value.totalDuration
            = SumOver(MapKeys(stats), "totalDuration")
       /\ result.value.totalRequests > 0
            => /\ result.value.averageDuration[2] > 0
               /\ result.value.averageDuration[1] * result.value.totalRequests
                    = result.value.totalDuration
                        * result.value.averageDuration[2]
       /\ result.value.topEndpoint = First(getTopEndpoints(1))
       /\ result.value.slowestEndpoint = First(getSlowestEndpoints(1))

\* A summary over two entries with different counts and a fractional average.
C12_Witness ==
    /\ result.op = "getSummary"
    /\ result.value.totalEndpoints = 2
    /\ result.value.totalRequests = 3
    /\ result.value.averageDuration[2] > 1

\* C13: for limit >= 1, getTopEndpoints(limit) and
\* getSlowestEndpoints(limit) return min(limit, size) entries of the store,
\* in non-increasing order of count (resp. averageDuration), none ranked
\* below an entry left out, entries of equal rank in the store's insertion
\* order.
C13_RankedQueries ==
    (IsRanked /\ result.limit >= 1)
    => LET v == result.value
       IN  /\ Len(v) = Min(result.limit, Len(stats))
           /\ \A i \in 1..Len(v) :
                /\ MapHas(stats, v[i].endpoint)
                /\ v[i].stats = MapGet(stats, v[i].endpoint)
           /\ \A i, j \in 1..Len(v) :
                i < j
                => /\ v[i].endpoint # v[j].endpoint
                   /\ ~RankBelow(result.op, v[i].stats, v[j].stats)
                   /\ ~RankBelow(result.op, v[j].stats, v[i].stats)
                        => MapIndex(stats, v[i].endpoint)
                             < MapIndex(stats, v[j].endpoint)
           /\ \A n \in 1..Len(stats) :
                (\A i \in 1..Len(v) : v[i].endpoint # stats[n].path)
                => \A i \in 1..Len(v) :
                     ~RankBelow(result.op, v[i].stats, stats[n])

\* A ranking of three entries cut to two, led by the entry inserted last.
C13_Witness ==
    /\ IsRanked
    /\ result.limit = 2
    /\ Len(stats) = 3
    /\ Len(result.value) = 2
    /\ result.value[1].endpoint = stats[3].path

\* C14: for every limit <= 0, getTopEndpoints(limit) and
\* getSlowestEndpoints(limit) return an empty sequence. Stated for stores
\* no call with an empty key has touched.
C14_NonPositiveLimitEmpty ==
    (IsRanked /\ result.limit <= 0 /\ NoEmptyKeyCall)
    => result.value = << >>

\* C15: reset(k) removes exactly the entry of k when present and is a no-op
\* when k is absent, every other entry unchanged; reset() empties the
\* store. Stated for stores no call with an empty key has touched.
C15_ResetRemovesExactlyKey ==
    [][\A arg \in QueryArgs :
         (Reset(arg) /\ NoEmptyKeyCall)
         => IF arg = << >>
            THEN stats' = << >>
            ELSE stats' = SelectSeq(stats, LAMBDA e : e.path # arg[1])]_vars

\* C16: reset is idempotent: a second reset(k), or a second reset(), leaves
\* the store as the first one left it.
C16_ResetIdempotent ==
    /\ \A arg \in QueryArgs :
         resetStore(resetStore(stats, arg), arg) = resetStore(stats, arg)
    /\ last.op = "reset" => resetStore(stats, <<last.key>>) = stats

\* reset(k) has removed the entry of k and left other entries behind.
C16_Witness ==
    /\ last.op = "reset"
    /\ last.key # ""
    /\ returned[last.key] > 0
    /\ ~MapHas(stats, last.key)
    /\ Len(stats) >= 1

\* C17: getStats(key), getStats(), getTopEndpoints, getSlowestEndpoints and
\* getSummary leave the store unchanged: no key added or removed, no field
\* of an entry changed (lastAccessedAt included), so the entry the next
\* eviction removes is the same.
IsQueryStep == result'.op # "none" /\ now' = now

C17_QueriesLeaveStore ==
    [][IsQueryStep
        => /\ stats' = stats
           /\ maxEndpoints' = maxEndpoints
           /\ \A t \in 0..MaxTime :
                LruScan(stats', 1, [isNull |-> TRUE, key |-> "", time |-> t])
                  = LruScan(stats, 1,
                            [isNull |-> TRUE, key |-> "", time |-> t])]_vars

\* getStats(key) has returned an entry older than the clock from a store at
\* capacity: the next new key evicts.
C17_Witness ==
    /\ result.op = "getStats"
    /\ result.value.kind = "entry"
    /\ result.value.value.lastAccessedAt < now
    /\ Len(stats) >= maxEndpoints
    /\ Len(stats) >= 2

\* ------------------------------------------------------ snapshots and hooks
\* C18: the Map getStats() returned is a snapshot: a later incrementCount or
\* reset changes neither its key set nor the field values of its entries.
C18_SnapshotUnaffected ==
    [][snapshot.taken => snapshot' = snapshot]_vars

\* C19: every incrementCount call invokes onUpdate exactly once, after the
\* entry has been updated and before the call returns, with the key and
\* the updated entry, whose count is the value incrementCount returns.
C19_HookProtocol ==
    [][IsIncrementCountStep
        => /\ hookCalls' = hookCalls + 1
           /\ hookArgs'.endpoint = last'.key
           /\ hookArgs'.stats.count >= 1
           /\ hookArgs'.stats.lastAccessedAt = now'
           /\ last'.outcome = "returned"
                => hookArgs'.stats.count = last'.ret]_vars

\* C20: the entry handed to onUpdate cannot be used to change the store:
\* after the call the stored entry has the values the hook was handed.
C20_HookCannotMutate ==
    (last.op = "incrementCount" /\ MapHas(stats, last.key))
    => MapGet(stats, last.key) = hookArgs.stats

\* C21: when onUpdate throws during incrementCount, the exception reaches
\* the caller: the call returns no count (none is recorded as returned).
C21_HookFailurePropagates ==
    [][(IsIncrementCountStep /\ onUpdate = "throw")
        => /\ last'.outcome = "threw"
           /\ returned' = returned]_vars

\* An incrementCount call has ended with the exception of its hook.
C21_Witness ==
    /\ onUpdate = "throw"
    /\ last.op = "incrementCount"
    /\ last.outcome = "threw"
    /\ hookCalls = calls
    /\ calls >= 1

C29_TieEvictsFirstInserted ==
    [][(IsIncrementCountStep /\ last'.evicted # {})
        => /\ Cardinality(last'.evicted) = 1
           /\ \E i \in 1..Len(stats) :
                /\ stats[i].path \in last'.evicted
                /\ \A j \in 1..Len(stats) :
                     /\ stats[j].lastAccessedAt >= stats[i].lastAccessedAt
                     /\ stats[j].lastAccessedAt = stats[i].lastAccessedAt
                          => i <= j]_vars

\* An eviction from a store of two entries that both had the smallest
\* timestamp 0: one of them is left.
C29_Witness ==
    /\ last.op = "incrementCount"
    /\ last.evicted # {}
    /\ maxEndpoints = 2
    /\ Len(stats) = 2
    /\ stats[1].lastAccessedAt = 0
    /\ stats[1].path # last.key

\* The entry of key k after the observations ds, recorded one whole call
\* after the other on a store without k.
RECURSIVE Replay(_, _)
Replay(cur, ds) ==
    IF ds = << >> THEN cur
    ELSE Replay(Updated(cur, Head(ds), 0), Tail(ds))

Aggregates(e) ==
    <<e.count, e.totalDuration, e.averageDuration, e.minDuration,
      e.maxDuration>>

\* C30: the aggregates of a key do not depend on the order in which its
\* observations are recorded: recording the observations of an entry
\* (those since it was created, so with no eviction or reset between) in
\* any other order gives the same count, totalDuration, averageDuration,
\* minDuration and maxDuration.
C30_OrderIndependent ==
    \A k \in Keys :
        MapHas(stats, k)
        => \A p \in Permutations(1..Len(hist[k])) :
             Aggregates(Replay(CurrentStats(<< >>, "GET", k, 0),
                               [i \in 1..Len(hist[k]) |-> hist[k][p[i]]]))
               = Aggregates(MapGet(stats, k))

\* An entry made of three observations, not all of the same duration.
C30_Witness ==
    \E k \in Keys :
        /\ MapHas(stats, k)
        /\ Len(hist[k]) = 3
        /\ hist[k][1] # hist[k][3]

\* ------------------------------------------------------------- middleware
\* The finish event of invocation i has been emitted.
FinishFired(r) == r.status \in {"finished", "failed"}

\* C23: for every invocation of the middleware next() is called exactly
\* once; incrementCount is called exactly once when the finish event fires,
\* with the method of the request and a duration >= 0, and not before, nor
\* for a response that never finishes.
C23_RecordOncePerFinish ==
    [][/\ \A i \in 1..Len(requests') : requests'[i].nexts = 1
       /\ \A i \in 1..Len(requests) :
            /\ requests[i].status \in {"pending", "closed"}
                 => requests[i].records = 0
            /\ (requests[i].status = "pending" /\ FinishFired(requests'[i]))
                 => /\ IsIncrementCountStep
                    /\ requests'[i].records = 1
                    /\ last'.method = requests[i].method
                    /\ requests'[i].duration >= 0
       /\ IsIncrementCountStep
            => \E i \in 1..Len(requests) :
                 requests[i].status = "pending" /\ FinishFired(requests'[i])
      ]_vars

\* C24: for every request URL neither the middleware nor its finish
\* callback throws, and a request whose response finished is recorded.
C24_MalformedUrlHandled ==
    \A i \in 1..Len(requests) :
        /\ requests[i].status # "threw"
        /\ requests[i].status # "failed"
        /\ FinishFired(requests[i]) => requests[i].records = 1

\* C25: with enableLogging false the logger is never called; with
\* enableLogging true it is called exactly once for every request whose
\* response finished, after incrementCount, with the method, the path, the
\* status code and the count incrementCount returned.
C25_LogsOncePerFinished ==
    /\ ~options.enableLogging => logged = << >>
    /\ \A n \in 1..Len(logged) :
         /\ logged[n].request \in 1..Len(requests)
         /\ FinishFired(requests[logged[n].request])
         /\ requests[logged[n].request].records = 1
         /\ logged[n].method = requests[logged[n].request].method
         /\ logged[n].pathname = requests[logged[n].request].key
         /\ logged[n].statusCode = requests[logged[n].request].statusCode
         /\ logged[n].count = requests[logged[n].request].count
    /\ options.enableLogging
         => \A i \in 1..Len(requests) :
              FinishFired(requests[i])
              => Cardinality({n \in 1..Len(logged) : logged[n].request = i})
                   = 1

\* C27: with groupByMethod true, finished requests for the same path with
\* different methods are counted in separate entries.
C27_GroupedByMethod ==
    options.groupByMethod
    => \A i, j \in 1..Len(requests) :
         (/\ requests[i].status = "finished"
          /\ requests[j].status = "finished"
          /\ requests[i].parsed.pathname = requests[j].parsed.pathname
          /\ requests[i].method # requests[j].method)
         => requests[i].key # requests[j].key

\* Two paths that differ only in segments made of digits.
Digits == {"1", "2", "3"}

SameRoute(a, b) ==
    /\ Len(a) = Len(b)
    /\ \A n \in 1..Len(a) : a[n] = b[n] \/ (a[n] \in Digits /\ b[n] \in Digits)

\* C28: with normalizePaths true, finished requests for paths that differ
\* only in a dynamic segment (/u/1 and /u/2) are counted under one key.
C28_DynamicSegmentsGrouped ==
    options.normalizePaths
    => \A i, j \in 1..Len(requests) :
         (/\ requests[i].status = "finished"
          /\ requests[j].status = "finished"
          /\ SameRoute(requests[i].parsed.pathname,
                       requests[j].parsed.pathname))
         => requests[i].key = requests[j].key

\* C26: two instances never share storage: incrementCount and reset calls
\* on one instance leave the store of the other unchanged, however the
\* other was created (new, createEndpointCounter,
\* endpointCounterMiddleware).
C26_InstancesShareNothing ==
    [][(peer.created /\ peer'.created)
        => /\ peer.map # ThisMap
           /\ peer'.calls = peer.calls => PeerStats' = PeerStats
           /\ peer'.calls # peer.calls => stats' = stats]_vars

\* Both instances hold entries, and different ones, after calls on both.
C26_Witness ==
    /\ peer.created
    /\ peer.via = "endpointCounterMiddleware"
    /\ peer.calls >= 1
    /\ calls >= 1
    /\ Len(stats) >= 1
    /\ Len(PeerStats) >= 1
    /\ MapKeys(stats) # MapKeys(PeerStats)

\* C31: when onUpdate throws, the call is not rolled back: the store holds
\* the key with its count incremented (1 for an entry the call created),
\* and the entries the call evicted stay removed.
C31_FailedCallNotRolledBack ==
    [][(IsIncrementCountStep /\ last'.outcome = "threw")
        => LET k == last'.key
               kept == MapHas(stats, k) /\ k \notin last'.evicted
           IN  /\ MapHas(stats', k)
               /\ MapGet(stats', k).count
                    = IF kept THEN MapGet(stats, k).count + 1 ELSE 1
               /\ MapGet(stats', k).lastAccessedAt = now'
               /\ \A e \in last'.evicted :
                    /\ MapHas(stats, e)
                    /\ e # k => ~MapHas(stats', e)]_vars

\* A call whose hook threw has evicted another key and stored its own.
C31_Witness ==
    /\ onUpdate = "throw"
    /\ last.op = "incrementCount"
    /\ last.outcome = "threw"
    /\ MapHas(stats, last.key)
    /\ \E e \in last.evicted : e # last.key /\ ~MapHas(stats, e)

=============================================================================
